---- MODULE Spec2Model ----
(***************************************************************************)
(* A model of watch_alebilet.py: one scheduled run of main() after         *)
(* another over the two persisted files (the latch state file and the CSV  *)
(* event log), with the page fetch, the price extraction and the alert     *)
(* mail as steps of the run.                                               *)
(*                                                                         *)
(* Spec      : the network, the page content, the mail submission and the  *)
(*             initial content of the state file are chosen by the         *)
(*             environment; the two mail secrets are set; writes to the    *)
(*             two local files succeed.                                    *)
(* SpecIO    : as Spec, and a call of log_row or save_state may also raise.*)
(* SpecLive  : as Spec, with fairness on the steps of lines 180-198.       *)
(* SpecEnv   : as Spec, over every setting of the SMTP_* variables.        *)
(* SpecPages : one run from line 170 on, over every page of a few rows.    *)
(* SpecFetch : one call of fetch_html_with_warm, statement by statement.   *)
(* SpecParse : one call of parse_price_pln.                                *)
(***************************************************************************)
EXTENDS Integers, Sequences, FiniteSets, TLC

\* ------------------------------------------------------------------ bounds

\* Number of runs of main() a behaviour of Spec holds.
MaxRuns == 3

\* Number of runs of main() a behaviour of SpecIO holds.
MaxRunsIO == 2

\* Length of the strings SpecParse gives parse_price_pln, at most.
MaxLen == 4

\* Number of <tr> elements a page of SpecPages holds at most.
MaxRows == 3

\* Number of runs of main() a behaviour of SpecLive holds.
MaxRunsLive == 2

\* Number of runs of the program a behaviour of SpecEnv holds.
MaxRunsEnv == 1

\* ------------------------------------------------------- program constants

\* THRESHOLD_PLN default "230.0", in whole PLN.
THRESHOLD == 230

\* fetch_html_with_warm's default max_retries.
max_retries == 3

\* fetch_html_with_warm's default backoff_ms.
backoff_ms == 800

\* The body length a page must exceed to be accepted.
MinBodyLen == 1000

\* -------------------------------------------------------------- characters

NBSP == "nbsp"
LSTROKE == "lstroke"
LSTROKE_UPPER == "LSTROKE"

Digits == {"0", "1", "2", "3", "4", "5", "6", "7", "8", "9"}

DigitVal(c) ==
    CASE c = "0" -> 0 [] c = "1" -> 1 [] c = "2" -> 2 [] c = "3" -> 3
      [] c = "4" -> 4 [] c = "5" -> 5 [] c = "6" -> 6 [] c = "7" -> 7
      [] c = "8" -> 8 [] c = "9" -> 9

\* str.lower() on one character.
LowerChar(c) ==
    CASE c = "A" -> "a" [] c = "B" -> "b" [] c = "C" -> "c" [] c = "D" -> "d"
      [] c = "E" -> "e" [] c = "F" -> "f" [] c = "G" -> "g" [] c = "H" -> "h"
      [] c = "I" -> "i" [] c = "J" -> "j" [] c = "K" -> "k" [] c = "L" -> "l"
      [] c = "M" -> "m" [] c = "N" -> "n" [] c = "O" -> "o" [] c = "P" -> "p"
      [] c = "Q" -> "q" [] c = "R" -> "r" [] c = "S" -> "s" [] c = "T" -> "t"
      [] c = "U" -> "u" [] c = "V" -> "v" [] c = "W" -> "w" [] c = "X" -> "x"
      [] c = "Y" -> "y" [] c = "Z" -> "z"
      [] c = LSTROKE_UPPER -> LSTROKE
      [] OTHER -> c

\* str.lower()
RECURSIVE Lower(_)
Lower(s) == IF s = <<>> THEN <<>> ELSE <<LowerChar(Head(s))>> \o Lower(Tail(s))

\* str.replace(old, new) for a one-character old and new of length 0 or 1.
RECURSIVE ReplaceChar(_, _, _)
ReplaceChar(s, old, new) ==
    IF s = <<>> THEN <<>>
    ELSE (IF Head(s) = old THEN new ELSE <<Head(s)>>)
         \o ReplaceChar(Tail(s), old, new)

\* str.replace(old, new, 1) for a one-character old.
RECURSIVE ReplaceFirstChar(_, _, _)
ReplaceFirstChar(s, old, new) ==
    IF s = <<>> THEN <<>>
    ELSE IF Head(s) = old THEN new \o Tail(s)
    ELSE <<Head(s)>> \o ReplaceFirstChar(Tail(s), old, new)

\* str.replace("zł", "")
RECURSIVE RemoveZl(_)
RemoveZl(s) ==
    IF Len(s) < 2 THEN s
    ELSE IF s[1] = "z" /\ s[2] = LSTROKE THEN RemoveZl(SubSeq(s, 3, Len(s)))
    ELSE <<s[1]>> \o RemoveZl(Tail(s))

IsSpace(c) == c \in {" ", NBSP}

RECURSIVE LStrip(_)
LStrip(s) == IF s # <<>> /\ IsSpace(Head(s)) THEN LStrip(Tail(s)) ELSE s

RECURSIVE RStrip(_)
RStrip(s) ==
    IF s # <<>> /\ IsSpace(s[Len(s)]) THEN RStrip(SubSeq(s, 1, Len(s) - 1)) ELSE s

\* str.strip()
Strip(s) == RStrip(LStrip(s))

\* ------------------------------------------------------------ price parser

\* float(s) for s over digits and "."; any other character of the model's
\* alphabet makes float raise ValueError. The value is the fraction num/den.
ValueError == [kind |-> "ValueError", num |-> 0, den |-> 1]

RECURSIVE DigitsVal(_)
DigitsVal(s) ==
    IF s = <<>> THEN 0 ELSE 10 * DigitsVal(SubSeq(s, 1, Len(s) - 1)) + DigitVal(s[Len(s)])

RECURSIVE Pow10(_)
Pow10(n) == IF n = 0 THEN 1 ELSE 10 * Pow10(n - 1)

CountChar(s, c) == Cardinality({i \in 1..Len(s) : s[i] = c})

float(s) ==
    IF \E i \in 1..Len(s) : s[i] \notin Digits \cup {"."} THEN ValueError
    ELSE IF CountChar(s, ".") > 1 THEN ValueError
    ELSE IF CountChar(s, ".") = Len(s) THEN ValueError
    ELSE IF CountChar(s, ".") = 0
         THEN [kind |-> "float", num |-> DigitsVal(s), den |-> 1]
    ELSE LET p == CHOOSE i \in 1..Len(s) : s[i] = "."
             ip == SubSeq(s, 1, p - 1)
             fp == SubSeq(s, p + 1, Len(s))
         IN  [kind |-> "float",
              num |-> DigitsVal(ip) * Pow10(Len(fp)) + DigitsVal(fp),
              den |-> Pow10(Len(fp))]

\* Lines 98-107 without the second pass of line 105.
parse_price_pln_OneDot(s) ==
    LET c1 == ReplaceFirstChar(
                  ReplaceChar(ReplaceChar(s, NBSP, <<" ">>), " ", <<>>),
                  ".", <<>>)
        c3 == ReplaceChar(c1, ",", <<".">>)
    IN  float(c3)

parse_price_pln(s) ==
    LET c1 == ReplaceFirstChar(
                  ReplaceChar(ReplaceChar(s, NBSP, <<" ">>), " ", <<>>),
                  ".", <<>>)
        c2 == ReplaceChar(ReplaceChar(c1, " ", <<>>), ".", <<>>)
        c3 == ReplaceChar(c2, ",", <<".">>)
    IN  float(c3)

\* price < THRESHOLD
LessThanThreshold(price) == price.num < THRESHOLD * price.den

\* f"{price:.2f}" as a number of hundredths (exact for at most two decimals).
Fmt2(price) == (price.num * 100) \div price.den

\* --------------------------------------------------------- price extractor

\* A <tr> of the page: its data-area attribute (has_area, area), its class
\* list, whether it holds a <td class="price">, and the texts of the <b>
\* elements of that cell in document order.
Row(has_area, area, classes, td, bolds) ==
    [has_area |-> has_area, area |-> area, classes |-> classes,
     td |-> td, bolds |-> bolds]

\* " ".join(classes)
RECURSIVE JoinSpace(_)
JoinSpace(ws) ==
    IF ws = <<>> THEN <<>>
    ELSE IF Len(ws) = 1 THEN ws[1]
    ELSE ws[1] \o <<" ">> \o JoinSpace(Tail(ws))

\* sub in s
Contains(s, sub) ==
    \E i \in 1..(Len(s) - Len(sub) + 1) : SubSeq(s, i, i + Len(sub) - 1) = sub

W_plyta == <<"p", "l", "y", "t", "a">>
W_category == <<"c", "a", "t", "e", "g", "o", "r", "y">>

\* The condition of lines 115-117 on one <tr>.
RowMatches(tr) ==
    /\ tr.has_area
    /\ Lower(tr.area) = W_plyta
    /\ Contains(Lower(JoinSpace(tr.classes)), W_category)

\* The loop of lines 114-119 passing over a matching <tr> without a price
\* cell.
RECURSIVE FirstMatchFrom_WithCell(_, _)
FirstMatchFrom_WithCell(html, i) ==
    IF i > Len(html) THEN 0
    ELSE IF RowMatches(html[i]) /\ html[i].td THEN i
    ELSE FirstMatchFrom_WithCell(html, i + 1)

\* The loop of lines 114-119 from row i on: the index of the first matching
\* <tr>, 0 when there is none.
RECURSIVE FirstMatchFrom(_, _)
FirstMatchFrom(html, i) ==
    IF i > Len(html) THEN 0
    ELSE IF RowMatches(html[i]) THEN i
    ELSE FirstMatchFrom(html, i + 1)

FirstMatch(html) == FirstMatchFrom(html, 1)

None == [kind |-> "None", num |-> 0, den |-> 1]

extract_plate_price(html) ==
    LET r == FirstMatch(html) IN
    IF r = 0 THEN None
    ELSE IF ~html[r].td THEN None
    ELSE IF html[r].bolds = <<>> \/ Strip(html[r].bolds[1]) = <<>> THEN None
    ELSE LET text == Strip(html[r].bolds[1])
             num_part == Strip(RemoveZl(Lower(text)))
         IN  parse_price_pln(num_part)

\* ------------------------------------------------------------- state store

\* A JSON value as far as main() looks at it: its type and, for an object,
\* the value of its key last_below ("absent", true, false, or the
\* non-boolean values 1 and 0).
Json(kind, lb) == [kind |-> kind, lb |-> lb]

JObj(lb) == Json("object", lb)

\* What the state file may hold: nothing (no file), bytes that are not JSON
\* (or a file that cannot be read), or a JSON value.
FileContents ==
    {Json(k, "absent") : k \in {"missing", "corrupt", "list", "null", "number"}}
    \cup {JObj(lb) : lb \in {"absent", "true", "false", "one", "zero"}}

load_state(f) ==
    IF f.kind = "missing" THEN JObj("false")
    ELSE IF f.kind = "corrupt" THEN JObj("false")
    ELSE f

\* json.dump(state, f): the file holds what the dict holds.
save_state(st) == st

\* state.get("last_below", False) raises AttributeError unless state is a dict.
HasGet(st) == st.kind = "object"

\* bool(state.get("last_below", False))
GetLastBelow(st) == st.lb \in {"true", "one"}

\* state["last_below"] = b
SetLastBelow(st, b) == [st EXCEPT !.lb = IF b THEN "true" ELSE "false"]

\* ----------------------------------------------------------- configuration

\* A variable of the process environment: unset, or set to a string (which
\* may be empty).
Unset == <<>>
Env(str) == <<str>>

\* What os.getenv(name) returns without a default: None or the string.
NoneStr == <<>>

\* The SMTP_* variables a deployment may have.
Environs ==
    [SMTP_HOST : {Unset, Env(<<>>), Env(<<"h">>)},
     SMTP_PORT : {Unset, Env(<<>>), Env(<<"0">>), Env(<<"5", "8", "7">>)},
     SMTP_USER : {Unset, Env(<<>>), Env(<<"u">>)},
     SMTP_PASS : {Unset, Env(<<>>), Env(<<"p">>)}]

\* The deployment the comments of lines 21-22 ask for: the two secrets set,
\* host and port left to their defaults.
Configured ==
    [SMTP_HOST |-> Unset, SMTP_PORT |-> Unset,
     SMTP_USER |-> Env(<<"u">>), SMTP_PASS |-> Env(<<"p">>)]

\* int(str) for str over digits: the integer, or ValueError on "".
int(str) ==
    IF str = <<>> \/ \E i \in 1..Len(str) : str[i] \notin Digits
    THEN [kind |-> "ValueError", val |-> 0]
    ELSE [kind |-> "int", val |-> DigitsVal(str)]

\* Line 19.
SMTP_HOST(env) ==
    IF env.SMTP_HOST = Unset THEN <<"smtp.gmail.com">> ELSE env.SMTP_HOST[1]

\* Line 20.
SMTP_PORT(env) ==
    int(IF env.SMTP_PORT = Unset THEN <<"5", "8", "7">> ELSE env.SMTP_PORT[1])

\* Line 21.
SMTP_USER(env) == IF env.SMTP_USER = Unset THEN NoneStr ELSE env.SMTP_USER

\* Line 22.
SMTP_PASS(env) == IF env.SMTP_PASS = Unset THEN NoneStr ELSE env.SMTP_PASS

\* Lines 15-28 run without raising: the module is imported.
Imports(env) == SMTP_PORT(env).kind = "int"

\* bool(x) of an optional string.
Truthy(opt) == opt # NoneStr /\ opt[1] # <<>>

\* The condition of line 137.
CredentialsPresent(env) ==
    /\ SMTP_HOST(env) # <<>>
    /\ SMTP_PORT(env).val # 0
    /\ Truthy(SMTP_USER(env))
    /\ Truthy(SMTP_PASS(env))

\* --------------------------------------------------------------- event log

NoLog == [exists |-> FALSE, header |-> FALSE, rows |-> <<>>]

\* f"{price:.2f}" if isinstance(price, (float, int)) else ""
PriceField(p) == IF p.kind = "float" THEN <<Fmt2(p)>> ELSE <<>>

log_row(lg, timestamp, p, st, nt) ==
    [exists |-> TRUE,
     header |-> lg.header \/ ~lg.exists,
     rows   |-> Append(lg.rows,
                       [timestamp |-> timestamp, price_pln |-> PriceField(p),
                        status |-> st, note |-> nt])]

\* ------------------------------------------------------------ environment

\* HTTP status codes a response may carry.
StatusCodes == {200, 204, 302, 403, 404, 429, 500}

\* Lengths of a response body, around the limit of line 82.
BodyLens == {0, MinBodyLen - 1, MinBodyLen, MinBodyLen + 1}

T199 == <<"1", "9", "9", ",", "0", "0", " ", "z", LSTROKE>>
T230 == <<"2", "3", "0", ",", "0", "0", NBSP, "Z", LSTROKE_UPPER>>
TBad == <<"o", "d", " ", "1", "9", "9", " ", "z", LSTROKE>>

W_PLYTA == <<"P", "l", "y", "t", "a">>
W_trybuna == <<"t", "r", "y", "b", "u", "n", "a">>
W_foo == <<"f", "o", "o">>

RowOther == Row(TRUE, W_trybuna, <<W_category>>, TRUE, <<T199>>)
RowHit(t) == Row(TRUE, W_PLYTA, <<W_foo, W_category>>, TRUE, <<t>>)
RowNoCell == Row(TRUE, W_plyta, <<W_category>>, FALSE, <<>>)

\* The pages the site may serve as an accepted body.
Pages ==
    {<<RowOther>>, <<RowNoCell, RowHit(T199)>>}
    \cup {<<RowOther, RowHit(t)>> : t \in {T199, T230, TBad, <<" ">>}}

\* What send_email_alert may meet: missing credentials, a failure of the
\* SMTP conversation, or a submitted message.
SendOutcomes == {"credentials missing", "smtp error", "sent"}

\* Lines 137-138 and 156-159 under the settings env: without credentials the
\* call raises at line 138, before smtplib is touched.
SendOutcomesOf(env) ==
    IF CredentialsPresent(env) THEN {"smtp error", "sent"}
    ELSE {"credentials missing"}

\* ------------------------------------------------------------------- state

VARIABLES
    file,        \* the state file (STATE_PATH)
    log,         \* the event log (LOG_PATH)
    mailbox,     \* the alert messages submitted so far, by run
    runs,        \* the number of runs of main() started
    pc,          \* where the current run of main() is
    now,         \* main: now
    state,       \* main: state
    last_below,  \* main: last_below
    attempt,     \* fetch_html_with_warm: attempt
    last_err,    \* fetch_html_with_warm: last_err
    sleeps,      \* the time.sleep calls of this run, in ms
    html,        \* main: html
    price,       \* main: price
    status,      \* main: status
    note,        \* main: note
    err,         \* the exception the except clause of line 200 caught
    exit,        \* how the run ended: "0" or "raised"
    sends,       \* calls of send_email_alert in this run
    saves,       \* completed writes of the state file in this run
    rows,        \* rows appended to the event log in this run
    environ,     \* the SMTP_* variables of the process environment
    f_max_retries,  \* fetch_html_with_warm: max_retries
    f_backoff_ms,   \* fetch_html_with_warm: backoff_ms
    f_pc,        \* where a call of fetch_html_with_warm on its own is
    f_attempt,   \* fetch_html_with_warm: attempt
    f_last_err,  \* fetch_html_with_warm: last_err
    f_sleeps,    \* the time.sleep calls of the call, in ms
    f_out,       \* what the call returned or raised
    f_r0,        \* fetch_html_with_warm: r0, the warm-up GET of the attempt
    f_r,         \* fetch_html_with_warm: r, the target GET of the attempt
    f_tries,     \* attempts fetch_html_with_warm has begun
    f_first_ok,  \* the first acceptable target response of the call
    p_s,         \* parse_price_pln: s
    p_result     \* parse_price_pln: what the call came to

vars == <<file, log, mailbox, runs, pc, now, state, last_below, attempt,
          last_err, sleeps, html, price, status, note, err, exit, sends,
          saves, rows, environ, f_max_retries, f_backoff_ms, f_pc,
          f_attempt, f_last_err, f_sleeps, f_out, f_r0, f_r, f_tries,
          f_first_ok, p_s, p_result>>

persistent == <<file, log, mailbox>>
fetch_locals == <<attempt, last_err, sleeps>>
counters == <<sends, saves, rows>>
main_vars == <<file, log, mailbox, runs, pc, now, state, last_below, attempt,
               last_err, sleeps, html, price, status, note, err, exit, sends,
               saves, rows, environ>>
fetch_call == <<f_max_retries, f_backoff_ms, f_pc, f_attempt, f_last_err,
                f_sleeps, f_out, f_r0, f_r, f_tries, f_first_ok>>
parse_call == <<p_s, p_result>>
unit_calls == <<fetch_call, parse_call>>

NoNote == <<>>
NoErr == <<>>

\* No call of fetch_html_with_warm or parse_price_pln on its own is under
\* way: main calls the fetch with its defaults.
NoResponse == [exc |-> FALSE, status_code |-> 0, len |-> 0, text |-> ""]
Pending == [kind |-> "pending", num |-> 0, den |-> 1]
NoCalls ==
    /\ f_max_retries = max_retries
    /\ f_backoff_ms = backoff_ms
    /\ f_pc = "idle"
    /\ f_attempt = 0
    /\ f_last_err = NoErr
    /\ f_sleeps = <<>>
    /\ f_out = <<>>
    /\ f_r0 = "none"
    /\ f_r = NoResponse
    /\ f_tries = 0
    /\ f_first_ok = NoResponse
    /\ p_s = <<>>
    /\ p_result = Pending

\* The deployments Spec and SpecIO follow.
SpecEnvirons == {Configured}

\* No run of main() has started.
MainIdle(files, envs) ==
    /\ file \in files
    /\ environ \in envs
    /\ log = NoLog
    /\ mailbox = <<>>
    /\ runs = 0
    /\ pc = "idle"
    /\ now = 0
    /\ state = JObj("false")
    /\ last_below = FALSE
    /\ attempt = 0
    /\ last_err = NoErr
    /\ sleeps = <<>>
    /\ html = <<>>
    /\ price = None
    /\ status = ""
    /\ note = NoNote
    /\ err = NoErr
    /\ exit = ""
    /\ sends = 0
    /\ saves = 0
    /\ rows = 0

Init == MainIdle(FileContents, SpecEnvirons) /\ NoCalls

\* -------------------------------------------------------------------- main

\* Lines 164-165: the scheduler starts a new run (at most max of them), which
\* loads the state file.
StartRun(max) ==
    /\ pc \in {"idle", "returned", "raised"}
    /\ runs < max
    /\ Imports(environ)
    /\ runs' = runs + 1
    /\ now' = runs + 1
    /\ state' = load_state(file)
    /\ pc' = "get_last_below"
    /\ last_below' = FALSE
    /\ attempt' = 0
    /\ last_err' = NoErr
    /\ sleeps' = <<>>
    /\ html' = <<>>
    /\ price' = None
    /\ status' = ""
    /\ note' = NoNote
    /\ err' = NoErr
    /\ exit' = ""
    /\ sends' = 0
    /\ saves' = 0
    /\ rows' = 0
    /\ UNCHANGED <<environ, unit_calls, persistent>>

MainStart == StartRun(MaxRuns)

MainStartEnv == StartRun(MaxRunsEnv)

MainStartLive == StartRun(MaxRunsLive)

\* Line 20 raising ValueError while the module body runs: the process ends
\* with a traceback before main() is entered.
ImportRaises ==
    /\ pc \in {"idle", "returned", "raised"}
    /\ runs < MaxRunsEnv
    /\ ~Imports(environ)
    /\ runs' = runs + 1
    /\ now' = runs + 1
    /\ pc' = "raised"
    /\ exit' = "raised"
    /\ state' = JObj("false")
    /\ last_below' = FALSE
    /\ attempt' = 0
    /\ last_err' = NoErr
    /\ sleeps' = <<>>
    /\ html' = <<>>
    /\ price' = None
    /\ status' = ""
    /\ note' = NoNote
    /\ err' = <<"ValueError: invalid literal for int()">>
    /\ sends' = 0
    /\ saves' = 0
    /\ rows' = 0
    /\ UNCHANGED <<environ, unit_calls, persistent>>

MainStartIO == StartRun(MaxRunsIO)

\* Line 166 on a dict.
MainLastBelow ==
    /\ pc = "get_last_below"
    /\ HasGet(state)
    /\ last_below' = GetLastBelow(state)
    /\ pc' = "fetch"
    /\ UNCHANGED <<environ, unit_calls,
                   persistent, runs, now, state, fetch_locals, html, price,
                   status, note, err, exit, counters>>

\* Line 166 on a JSON value that is no dict: AttributeError, outside the try.
MainLastBelowRaises ==
    /\ pc = "get_last_below"
    /\ ~HasGet(state)
    /\ pc' = "raised"
    /\ exit' = "raised"
    /\ UNCHANGED <<environ, unit_calls,
                   persistent, runs, now, state, last_below, fetch_locals,
                   html, price, status, note, err, counters>>

\* ---------------------------------------------------- fetch_html_with_warm

\* The warm-up GET of line 77: a response (whatever its status) or a raised
\* requests exception.
WarmOutcomes == {"response", "raises"}

\* The target GET of line 81: a raised requests exception or a response.
TargetOutcomes ==
    {[exc |-> TRUE, status_code |-> 0, len |-> 0]}
    \cup {[exc |-> FALSE, status_code |-> sc, len |-> n] :
              sc \in StatusCodes, n \in BodyLens}

\* Line 82 taking a body of exactly the limit.
Accepted_AtLeast(r) ==
    /\ 200 <= r.status_code /\ r.status_code < 300
    /\ r.len # 0
    /\ r.len >= MinBodyLen

\* Line 82.
Accepted(r) ==
    /\ 200 <= r.status_code /\ r.status_code < 300
    /\ r.len # 0
    /\ r.len > MinBodyLen

\* Line 85.
BadHttp(r) ==
    \/ r.status_code \in {403, 429}
    \/ r.status_code >= 500
    \/ r.len < MinBodyLen

\* Lines 75-88 of one attempt: "return" or the exception the except clause
\* of line 88 catches.
AttemptResult(warm, r) ==
    IF warm = "raises" THEN "warm-up request raised"
    ELSE IF r.exc THEN "target request raised"
    ELSE IF Accepted(r) THEN "return"
    ELSE IF BadHttp(r) THEN "Bad HTTP or tiny body"
    ELSE "Unexpected HTTP"

\* What one attempt can come to, over the responses the environment may give.
AttemptResults ==
    {AttemptResult(warm, r) : warm \in WarmOutcomes, r \in TargetOutcomes}

\* Line 91 with the base counted from attempt 0.
BackoffOf_FromZero(a, bo) == bo * a

\* Line 91 for a call with backoff_ms = bo, in ms.
BackoffOf(a, bo) == bo * (a + 1)

\* Line 91 of main's call, in ms.
Backoff(a) == BackoffOf(a, backoff_ms)

\* Line 90 letting one more attempt through.
MayRetryOf_Inclusive(a, mr) == a <= mr

\* Line 90 for a call with max_retries = mr.
MayRetryOf(a, mr) == a < mr

\* Line 90 of main's call.
MayRetry(a) == MayRetryOf(a, max_retries)

\* Lines 75-83: an attempt whose target response is accepted returns its body.
FetchReturns ==
    /\ pc = "fetch"
    /\ \E res \in AttemptResults, body \in Pages :
           /\ res = "return"
           /\ html' = body
    /\ pc' = "extract"
    /\ UNCHANGED <<environ, unit_calls,
                   persistent, runs, now, state, last_below, fetch_locals,
                   price, status, note, err, exit, counters>>

\* Lines 88-92: a failed attempt that is not the last sleeps and continues.
FetchRetries ==
    /\ pc = "fetch"
    /\ MayRetry(attempt)
    /\ \E res \in AttemptResults :
           /\ res # "return"
           /\ last_err' = <<res>>
    /\ sleeps' = Append(sleeps, Backoff(attempt))
    /\ attempt' = attempt + 1
    /\ UNCHANGED <<environ, unit_calls,
                   persistent, runs, now, state, last_below, pc, html, price,
                   status, note, err, exit, counters>>

\* Lines 88-94: the last attempt fails; the RuntimeError of line 94 reaches
\* the except clause of main.
FetchRaises ==
    /\ pc = "fetch"
    /\ ~MayRetry(attempt)
    /\ \E res \in AttemptResults :
           /\ res # "return"
           /\ last_err' = <<res>>
           /\ err' = <<"Fetch failed after retries: ", res>>
    /\ pc' = "except"
    /\ UNCHANGED <<environ, unit_calls,
                   persistent, runs, now, state, last_below, attempt, sleeps,
                   html, price, status, note, exit, counters>>

\* ------------------------------------------------------- main, lines 170-198

\* Line 170 raising, taken as a price of None.
ExtractRaises_AsNoMatch(res) ==
    /\ res.kind = "ValueError"
    /\ price' = None
    /\ pc' = "log_no_match"
    /\ UNCHANGED <<environ, unit_calls,
                   persistent, runs, now, state, last_below, fetch_locals,
                   html, status, note, err, exit, counters>>

\* Line 170 raising: parse_price_pln's ValueError reaches the except clause.
ExtractRaises(res) ==
    /\ res.kind = "ValueError"
    /\ err' = <<"could not convert string to float">>
    /\ pc' = "except"
    /\ UNCHANGED <<environ, unit_calls,
                   persistent, runs, now, state, last_below, fetch_locals,
                   html, price, status, note, exit, counters>>

\* Lines 170-171 with price None.
ExtractNone(res) ==
    /\ res.kind = "None"
    /\ price' = None
    /\ pc' = "log_no_match"
    /\ UNCHANGED <<environ, unit_calls,
                   persistent, runs, now, state, last_below, fetch_locals,
                   html, status, note, err, exit, counters>>

\* Line 177 with <= for <.
StatusOf_Inclusive(p) ==
    IF p.num <= THRESHOLD * p.den THEN "BELOW" ELSE "ABOVE"

\* Line 177.
StatusOf(p) == IF LessThanThreshold(p) THEN "BELOW" ELSE "ABOVE"

\* Line 180 without its latch test.
NeedsAlert_NoLatch(st, lb) == st = "BELOW"

\* Line 180.
NeedsAlert(st, lb) == st = "BELOW" /\ ~lb

\* Lines 190-193.
AboveNote(lb) ==
    IF lb THEN <<"Latch reset (price went above threshold)">> ELSE NoNote

\* Line 193 left out.
StateAfterAbove_Keep(st) == st

\* Line 193.
StateAfterAbove(st) == SetLastBelow(st, FALSE)

\* Lines 170-180 and 190-193 with a price: the status, and the ABOVE branch.
Decide(res) ==
    /\ res.kind = "float"
    /\ price' = res
    /\ status' = StatusOf(res)
    /\ IF NeedsAlert(status', last_below)
       THEN /\ pc' = "send"
            /\ UNCHANGED <<state, note>>
       ELSE IF status' = "ABOVE"
       THEN /\ note' = AboveNote(last_below)
            /\ state' = StateAfterAbove(state)
            /\ pc' = "log"
       ELSE /\ pc' = "log"
            /\ UNCHANGED <<state, note>>
    /\ UNCHANGED <<environ, unit_calls,
                   persistent, runs, now, last_below, fetch_locals, html,
                   err, exit, counters>>

\* Line 170 and what follows from its result.
Extract ==
    /\ pc = "extract"
    /\ LET res == extract_plate_price(html) IN
           \/ ExtractRaises(res)
           \/ ExtractNone(res)
           \/ Decide(res)

\* Line 185 left out.
StateAfterSent_NoLatch(st) == st

\* Line 185.
StateAfterSent(st) == SetLastBelow(st, TRUE)

\* Line 189 latching as line 185 does.
StateAfterSendError_Latch(st) == SetLastBelow(st, TRUE)

\* Line 189.
StateAfterSendError(st) == SetLastBelow(st, FALSE)

\* Lines 182-185: send_email_alert submits the message.
SendSucceeds ==
    /\ pc = "send"
    /\ \E o \in SendOutcomesOf(environ) : o = "sent"
    /\ sends' = sends + 1
    /\ mailbox' = Append(mailbox, [run |-> now, price |-> Fmt2(price)])
    /\ note' = <<"Alert sent">>
    /\ state' = StateAfterSent(state)
    /\ pc' = "log"
    /\ UNCHANGED <<environ, unit_calls,
                   file, log, runs, now, last_below, fetch_locals, html,
                   price, status, err, exit, saves, rows>>

\* Lines 186-189 calling send_email_alert once more after a first failure.
SendRaises_Retry ==
    /\ pc = "send"
    /\ \E o \in SendOutcomesOf(environ) :
           /\ o # "sent"
           /\ note' = <<"Email error: ", o>>
    /\ sends' = sends + 1
    /\ state' = SetLastBelow(state, FALSE)
    /\ pc' = IF sends = 0 THEN "send" ELSE "log"
    /\ UNCHANGED <<environ, unit_calls,
                   persistent, runs, now, last_below, fetch_locals, html,
                   price, status, err, exit, saves, rows>>

\* Lines 182-183 and 186-189: send_email_alert raises (line 138, or smtplib).
SendRaises ==
    /\ pc = "send"
    /\ \E o \in SendOutcomesOf(environ) :
           /\ o # "sent"
           /\ note' = <<"Email error: ", o>>
    /\ sends' = sends + 1
    /\ state' = StateAfterSendError(state)
    /\ pc' = "log"
    /\ UNCHANGED <<environ, unit_calls,
                   persistent, runs, now, last_below, fetch_locals, html,
                   price, status, err, exit, saves, rows>>

\* Line 195.
LogPrice ==
    /\ pc = "log"
    /\ log' = log_row(log, now, price, status, note)
    /\ rows' = rows + 1
    /\ pc' = "save"
    /\ UNCHANGED <<environ, unit_calls,
                   file, mailbox, runs, now, state, last_below, fetch_locals,
                   html, price, status, note, err, exit, sends, saves>>

\* Lines 196-198.
SavePrice ==
    /\ pc = "save"
    /\ file' = save_state(state)
    /\ saves' = saves + 1
    /\ pc' = "returned"
    /\ exit' = "0"
    /\ UNCHANGED <<environ, unit_calls,
                   log, mailbox, runs, now, state, last_below, fetch_locals,
                   html, price, status, note, err, sends, rows>>

NoMatchNote == <<"Nie znaleziono wiersza Plyta/ceny">>

\* Line 172.
LogNoMatch ==
    /\ pc = "log_no_match"
    /\ log' = log_row(log, now, None, "NO_MATCH", NoMatchNote)
    /\ rows' = rows + 1
    /\ pc' = "save_no_match"
    /\ UNCHANGED <<environ, unit_calls,
                   file, mailbox, runs, now, state, last_below, fetch_locals,
                   html, price, status, note, err, exit, sends, saves>>

\* Line 174 saving a reset latch.
NoMatchState_Reset(st) == SetLastBelow(st, FALSE)

\* Line 174: the dict as loaded ("no change").
NoMatchState(st) == st

\* Lines 174-175.
SaveNoMatch ==
    /\ pc = "save_no_match"
    /\ file' = save_state(NoMatchState(state))
    /\ saves' = saves + 1
    /\ pc' = "returned"
    /\ exit' = "0"
    /\ UNCHANGED <<environ, unit_calls,
                   log, mailbox, runs, now, state, last_below, fetch_locals,
                   html, price, status, note, err, sends, rows>>

\* The state the except clause saves (line 204): the dict as it is by then.
HandlerState(st) == st

\* Line 201.
ExceptLog ==
    /\ pc = "except"
    /\ log' = log_row(log, now, None, "ERROR", err)
    /\ rows' = rows + 1
    /\ pc' = "except_save"
    /\ UNCHANGED <<environ, unit_calls,
                   file, mailbox, runs, now, state, last_below, fetch_locals,
                   html, price, status, note, err, exit, sends, saves>>

\* Lines 204-205.
ExceptSave ==
    /\ pc = "except_save"
    /\ file' = save_state(HandlerState(state))
    /\ saves' = saves + 1
    /\ pc' = "returned"
    /\ exit' = "0"
    /\ UNCHANGED <<environ, unit_calls,
                   log, mailbox, runs, now, state, last_below, fetch_locals,
                   html, price, status, note, err, sends, rows>>

\* ------------------------------------------------- failing writes (SpecIO)

\* What a failed save_state leaves: the file as it was (open raised) or a
\* truncated file (the write raised after open(..., "w")).
AfterFailedSave(f) == {f, Json("corrupt", "absent")}

\* log_row raises at line 172 or 195 (makedirs or open): caught at line 200.
LogRowRaises ==
    /\ pc \in {"log_no_match", "log"}
    /\ err' = <<"OSError: log">>
    /\ pc' = "except"
    /\ UNCHANGED <<environ, unit_calls,
                   persistent, runs, now, state, last_below, fetch_locals,
                   html, price, status, note, exit, counters>>

\* save_state raises at line 174 or 196: caught at line 200.
SaveStateRaises ==
    /\ pc \in {"save_no_match", "save"}
    /\ file' \in AfterFailedSave(file)
    /\ err' = <<"OSError: state">>
    /\ pc' = "except"
    /\ UNCHANGED <<environ, unit_calls,
                   log, mailbox, runs, now, state, last_below, fetch_locals,
                   html, price, status, note, exit, counters>>

\* log_row raises at line 201, inside the except clause: main raises.
HandlerLogRowRaises ==
    /\ pc = "except"
    /\ pc' = "raised"
    /\ exit' = "raised"
    /\ UNCHANGED <<environ, unit_calls,
                   persistent, runs, now, state, last_below, fetch_locals,
                   html, price, status, note, err, counters>>

\* save_state raises at line 204, inside the except clause: main raises.
HandlerSaveStateRaises ==
    /\ pc = "except_save"
    /\ file' \in AfterFailedSave(file)
    /\ pc' = "raised"
    /\ exit' = "raised"
    /\ UNCHANGED <<environ, unit_calls,
                   log, mailbox, runs, now, state, last_below, fetch_locals,
                   html, price, status, note, err, counters>>

\* ---------------------------------------------------------- specifications

\* The steps of a run after its start.
Run ==
    \/ MainLastBelow
    \/ MainLastBelowRaises
    \/ FetchReturns
    \/ FetchRetries
    \/ FetchRaises
    \/ Extract
    \/ SendSucceeds
    \/ SendRaises
    \/ LogPrice
    \/ SavePrice
    \/ LogNoMatch
    \/ SaveNoMatch
    \/ ExceptLog
    \/ ExceptSave

Next == MainStart \/ Run

Spec == Init /\ [][Next]_vars

NextIO ==
    \/ MainStartIO
    \/ Run
    \/ LogRowRaises
    \/ SaveStateRaises
    \/ HandlerLogRowRaises
    \/ HandlerSaveStateRaises

SpecIO == Init /\ [][NextIO]_vars

\* SpecLive: as Spec, and a run that has reached line 180 goes on to its
\* end: lines 180-198 are sequential code whose blocking calls (smtplib with
\* a timeout, the writes of the two local files) return or raise.
NextLive == MainStartLive \/ Run

SpecLive ==
    /\ Init
    /\ [][NextLive]_vars
    /\ WF_vars(SendSucceeds \/ SendRaises)
    /\ WF_vars(LogPrice)
    /\ WF_vars(SavePrice)

\* The state files SpecEnv and SpecPages start from: none, or a dict with
\* the latch set.
EnvFiles == {Json("missing", "absent"), JObj("true")}

\* The <tr> elements a page of SpecPages is made of: rows that fail the
\* condition of lines 115-117 (no data-area, another area, no class with
\* "category"), and rows that meet it, with and without a price cell, a <b>
\* and a text in it (RowTwoBolds has an empty first <b>).
W_subcategory == <<"S", "u", "b">> \o W_category
T1234 == <<"1", " ", "2", "3", "4", ",", "5", "6", " ", "z", LSTROKE>>
RowNoArea == Row(FALSE, <<>>, <<W_category>>, TRUE, <<T199>>)
RowNoCategory == Row(TRUE, W_plyta, <<W_foo>>, TRUE, <<T199>>)
RowSubClass(t) == Row(TRUE, W_plyta, <<W_subcategory, W_foo>>, TRUE, <<t>>)
RowNoBold == Row(TRUE, W_PLYTA, <<W_category>>, TRUE, <<>>)
RowTwoBolds ==
    Row(TRUE, W_plyta, <<W_category>>, TRUE, <<<<NBSP, " ">>, T199>>)
RowKinds ==
    {RowOther, RowNoArea, RowNoCategory, RowNoCell, RowNoBold, RowTwoBolds,
     RowHit(T199), RowHit(TBad), RowSubClass(T1234)}

\* The pages of at most MaxRows <tr> elements.
AllPages == UNION {[1..n -> RowKinds] : n \in 0..MaxRows}

\* SpecPages: one run of main() from line 170 on (the fetch of line 169 has
\* returned at its first attempt), over every page of AllPages.
InitPages ==
    /\ file \in EnvFiles
    /\ environ = Configured
    /\ NoCalls
    /\ log = NoLog
    /\ mailbox = <<>>
    /\ runs = 1
    /\ now = 1
    /\ state = load_state(file)
    /\ last_below = GetLastBelow(state)
    /\ attempt = 0
    /\ last_err = NoErr
    /\ sleeps = <<>>
    /\ html \in AllPages
    /\ pc = "extract"
    /\ price = None
    /\ status = ""
    /\ note = NoNote
    /\ err = NoErr
    /\ exit = ""
    /\ sends = 0
    /\ saves = 0
    /\ rows = 0

NextPages ==
    \/ Extract
    \/ SendSucceeds
    \/ SendRaises
    \/ LogPrice
    \/ SavePrice
    \/ LogNoMatch
    \/ SaveNoMatch
    \/ ExceptLog
    \/ ExceptSave

SpecPages == InitPages /\ [][NextPages]_vars

\* SpecEnv: as Spec, over every setting of the SMTP_* variables, from no
\* state file, a dict with the latch set, or a JSON list.
InitEnv == MainIdle(EnvFiles \cup {Json("list", "absent")}, Environs) /\ NoCalls

NextEnv == MainStartEnv \/ ImportRaises \/ Run

SpecEnv == InitEnv /\ [][NextEnv]_vars

\* ------------------------------- fetch_html_with_warm, statement by statement

\* The largest max_retries a call of SpecFetch is given.
MaxRetriesArg == 3

\* The backoff_ms a call of SpecFetch may be given.
BackoffArgs == {backoff_ms, 500}

\* The texts a response may carry.
Texts == {"page A", "page B"}

\* A target response of status in [200,300) with more than 1000 characters.
AcceptableResponse(resp) ==
    /\ ~resp.exc
    /\ resp.status_code \in 200..299
    /\ resp.len >= MinBodyLen + 1

\* Lines 72-75 of a call fetch_html_with_warm(url, max_retries, backoff_ms)
\* with max_retries >= 0: the loop is at its first attempt.
InitFetch ==
    /\ MainIdle({Json("missing", "absent")}, {Configured})
    /\ f_max_retries \in 0..MaxRetriesArg
    /\ f_backoff_ms \in BackoffArgs
    /\ f_pc = "warm"
    /\ f_attempt = 0
    /\ f_last_err = NoErr
    /\ f_sleeps = <<>>
    /\ f_out = <<>>
    /\ f_r0 = "none"
    /\ f_r = NoResponse
    /\ f_tries = 0
    /\ f_first_ok = NoResponse
    /\ p_s = <<>>
    /\ p_result = Pending

\* Line 77: the warm-up GET brings a response, of whatever status.
FetchWarmResponds ==
    /\ f_pc = "warm"
    /\ f_tries' = f_tries + 1
    /\ f_r0' = "response"
    /\ f_r' = NoResponse
    /\ f_pc' = "target"
    /\ UNCHANGED <<main_vars, parse_call, f_max_retries, f_backoff_ms,
                   f_attempt, f_last_err, f_sleeps, f_out, f_first_ok>>

\* Line 77 raising (timeout, connection error): caught at line 88, so that
\* lines 79-87 of this attempt are skipped.
FetchWarmRaises ==
    /\ f_pc = "warm"
    /\ f_tries' = f_tries + 1
    /\ f_r0' = "raises"
    /\ f_r' = NoResponse
    /\ f_last_err' = <<AttemptResult("raises", NoResponse)>>
    /\ f_pc' = "handler"
    /\ UNCHANGED <<main_vars, parse_call, f_max_retries, f_backoff_ms,
                   f_attempt, f_sleeps, f_out, f_first_ok>>

\* Line 81: the target GET brings a response.
FetchTargetResponds ==
    /\ f_pc = "target"
    /\ \E o \in TargetOutcomes, t \in Texts :
           /\ ~o.exc
           /\ f_r' = [exc |-> FALSE, status_code |-> o.status_code,
                      len |-> o.len, text |-> t]
    /\ f_first_ok' = IF f_first_ok = NoResponse /\ AcceptableResponse(f_r')
                     THEN f_r' ELSE f_first_ok
    /\ f_pc' = "judge"
    /\ UNCHANGED <<main_vars, parse_call, f_max_retries, f_backoff_ms,
                   f_attempt, f_last_err, f_sleeps, f_out, f_r0, f_tries>>

\* Line 81 raising: caught at line 88.
FetchTargetRaises ==
    /\ f_pc = "target"
    /\ f_r' = [exc |-> TRUE, status_code |-> 0, len |-> 0, text |-> ""]
    /\ f_last_err' = <<AttemptResult(f_r0, f_r')>>
    /\ f_pc' = "handler"
    /\ UNCHANGED <<main_vars, parse_call, f_max_retries, f_backoff_ms,
                   f_attempt, f_sleeps, f_out, f_r0, f_tries, f_first_ok>>

\* Lines 82-83.
FetchReturnsText ==
    /\ f_pc = "judge"
    /\ Accepted(f_r)
    /\ f_out' = <<"return", f_r.text>>
    /\ f_pc' = "returned"
    /\ UNCHANGED <<main_vars, parse_call, f_max_retries, f_backoff_ms,
                   f_attempt, f_last_err, f_sleeps, f_r0, f_r, f_tries,
                   f_first_ok>>

\* Lines 85-89: one of the two RuntimeErrors, caught at line 88.
FetchRaisesHttp ==
    /\ f_pc = "judge"
    /\ ~Accepted(f_r)
    /\ f_last_err' = <<AttemptResult(f_r0, f_r)>>
    /\ f_pc' = "handler"
    /\ UNCHANGED <<main_vars, parse_call, f_max_retries, f_backoff_ms,
                   f_attempt, f_sleeps, f_out, f_r0, f_r, f_tries,
                   f_first_ok>>

\* Lines 90-92: sleep, then the next attempt.
FetchSleeps ==
    /\ f_pc = "handler"
    /\ MayRetryOf(f_attempt, f_max_retries)
    /\ f_sleeps' = Append(f_sleeps, BackoffOf(f_attempt, f_backoff_ms))
    /\ f_attempt' = f_attempt + 1
    /\ f_pc' = "warm"
    /\ UNCHANGED <<main_vars, parse_call, f_max_retries, f_backoff_ms,
                   f_last_err, f_out, f_r0, f_r, f_tries, f_first_ok>>

\* Lines 93-94: the loop is left and the RuntimeError raised.
FetchBreaks ==
    /\ f_pc = "handler"
    /\ ~MayRetryOf(f_attempt, f_max_retries)
    /\ f_out' = <<"raise", "Fetch failed after retries: ", f_last_err[1]>>
    /\ f_pc' = "raised"
    /\ UNCHANGED <<main_vars, parse_call, f_max_retries, f_backoff_ms,
                   f_attempt, f_last_err, f_sleeps, f_r0, f_r, f_tries,
                   f_first_ok>>

NextFetch ==
    \/ FetchWarmResponds
    \/ FetchWarmRaises
    \/ FetchTargetResponds
    \/ FetchTargetRaises
    \/ FetchReturnsText
    \/ FetchRaisesHttp
    \/ FetchSleeps
    \/ FetchBreaks

SpecFetch == InitFetch /\ [][NextFetch]_vars

\* ------------------------------------------------- parse_price_pln on its own

\* The characters of the strings SpecParse gives parse_price_pln.
ParseAlphabet == {"0", "7", " ", NBSP, ".", ","}

\* The strings of the comment of line 98.
T244_95 == <<"2", "4", "4", ",", "9", "5">>
T1_234_56 == <<"1", " ", "2", "3", "4", ",", "5", "6">>
T1d234_56 == <<"1", ".", "2", "3", "4", ",", "5", "6">>
T1n234_56 == <<"1", NBSP, "2", "3", "4", ",", "5", "6">>

ParseInputs ==
    UNION {[1..n -> ParseAlphabet] : n \in 0..MaxLen}
    \cup {T244_95, T1_234_56, T1d234_56, T1n234_56}

\* A call parse_price_pln(s) is about to be made.
InitParse ==
    /\ MainIdle({Json("missing", "absent")}, {Configured})
    /\ f_max_retries = max_retries
    /\ f_backoff_ms = backoff_ms
    /\ f_pc = "idle"
    /\ f_attempt = 0
    /\ f_last_err = NoErr
    /\ f_sleeps = <<>>
    /\ f_out = <<>>
    /\ f_r0 = "none"
    /\ f_r = NoResponse
    /\ f_tries = 0
    /\ f_first_ok = NoResponse
    /\ p_s \in ParseInputs
    /\ p_result = Pending

\* Lines 98-107: the call returns a float or raises ValueError.
Parse ==
    /\ p_result = Pending
    /\ p_result' = parse_price_pln(p_s)
    /\ UNCHANGED <<main_vars, fetch_call, p_s>>

SpecParse == InitParse /\ [][Parse]_vars

\* ------------------------------------------------------------------ claims

Finished == pc \in {"returned", "raised"}

NumRows == Len(log.rows)
LastRow == log.rows[NumRows]
PrevRow == log.rows[NumRows - 1]

\* The rows of the event log a run wrote (a row carries its run's now).
RowsOfRun(n) == SelectSeq(log.rows, LAMBDA r : r.timestamp = n)

\* An alert message was submitted in run n.
SentInRun(n) == \E i \in 1..Len(mailbox) : mailbox[i].run = n

\* The last_below value a run starting now would load from the state file.
FileLastBelow == GetLastBelow(load_state(file))

\* The run before this one returned and logged the last row but one.
AfterRow(st) ==
    /\ NumRows >= 2
    /\ PrevRow.timestamp = now - 1
    /\ PrevRow.status = st

ObservationRow(p, st, nt) ==
    [timestamp |-> now, price_pln |-> p, status |-> st, note |-> nt]

\* C1: between two runs that each submit an alert there is a run that logged
\* ABOVE, and of two consecutive BELOW runs the second, which follows a run
\* that noted "Alert sent", sends nothing and notes nothing.
C1_OneAlertPerBelowPeriod ==
    /\ \A i, j \in 1..Len(mailbox) :
           i < j =>
               \E k \in 1..NumRows :
                   /\ log.rows[k].status = "ABOVE"
                   /\ mailbox[i].run < log.rows[k].timestamp
                   /\ log.rows[k].timestamp < mailbox[j].run
    /\ \A k \in 1..(NumRows - 1) :
           ( /\ log.rows[k].status = "BELOW"
             /\ log.rows[k].note = <<"Alert sent">>
             /\ log.rows[k + 1].status = "BELOW" )
           => ( /\ log.rows[k + 1].note = <<>>
                /\ ~SentInRun(log.rows[k + 1].timestamp) )

\* An alert, then a NO_MATCH or ERROR run, then a BELOW run that sent nothing.
C1_Witness ==
    /\ pc = "returned"
    /\ NumRows = 3
    /\ log.rows[1].status = "BELOW"
    /\ log.rows[1].note = <<"Alert sent">>
    /\ log.rows[2].status \in {"NO_MATCH", "ERROR"}
    /\ log.rows[3].status = "BELOW"
    /\ Len(mailbox) = 1

\* C2: a run that observed ABOVE has written last_below = false and logged
\* one ABOVE row, noting "Latch reset" exactly when it loaded true; a run
\* that observes BELOW right after a run that logged ABOVE calls
\* send_email_alert.
C2_LatchReset ==
    /\ (pc = "returned" /\ status = "ABOVE") =>
           /\ file = JObj("false")
           /\ RowsOfRun(now) =
                  <<ObservationRow(
                        <<Fmt2(price)>>, "ABOVE",
                        IF last_below
                        THEN <<"Latch reset (price went above threshold)">>
                        ELSE <<>>)>>
    /\ (pc = "returned" /\ status = "BELOW" /\ AfterRow("ABOVE")) => sends = 1

\* A latch reset followed by a BELOW run that called send_email_alert.
C2_Witness ==
    /\ pc = "returned"
    /\ status = "BELOW"
    /\ AfterRow("ABOVE")
    /\ PrevRow.note = <<"Latch reset (price went above threshold)">>
    /\ sends = 1

C4_OneRowOneSave ==
    (Finished /\ HasGet(state)) =>
        /\ rows = 1
        /\ Len(RowsOfRun(now)) = 1
        /\ saves = 1

\* C5: a run that logged an ERROR row has written the last_below value it
\* loaded.
C5_ErrorKeepsLatch ==
    ( /\ pc = "returned"
      /\ \E k \in 1..NumRows :
             log.rows[k].timestamp = now /\ log.rows[k].status = "ERROR" )
    => FileLastBelow = last_below

\* C6: a run whose extraction returned None has logged exactly one row, a
\* NO_MATCH row without price, called send_email_alert never, and written
\* the last_below value it loaded.
C6_NoMatchFrame ==
    ( /\ pc = "returned"
      /\ html \in Pages
      /\ extract_plate_price(html).kind = "None" )
    => /\ RowsOfRun(now) = <<ObservationRow(<<>>, "NO_MATCH", NoMatchNote)>>
       /\ sends = 0
       /\ ~SentInRun(now)
       /\ HasGet(load_state(file))
       /\ FileLastBelow = last_below

\* A NO_MATCH run that loaded a set latch and left it set.
C6_Witness ==
    /\ pc = "returned"
    /\ html \in Pages
    /\ extract_plate_price(html).kind = "None"
    /\ last_below
    /\ FileLastBelow

\* C7: every run of main() ends returning 0.
C7_ExitZero == Finished => exit = "0"

\* C8: a run that finds a state file that is missing, unreadable, not JSON,
\* or JSON that is no object holding last_below, goes on with last_below
\* false, and no run raises at line 166.
C8_BadStateFileIsFalse ==
    /\ (pc = "get_last_below" /\ ~(file.kind = "object" /\ file.lb # "absent"))
           => (HasGet(state) /\ ~GetLastBelow(state))
    /\ ~(pc = "raised" /\ ~HasGet(state))

\* C9: once a run has written the state file, the file is a JSON object
\* whose last_below is a boolean, and the run after it loads what was written.
C9_WrittenFileHasLatch ==
    /\ saves > 0 => (file.kind = "object" /\ file.lb \in {"true", "false"})
    /\ (pc = "get_last_below" /\ runs > 1 /\ file.kind = "object") => state = file

\* C10: a run calls send_email_alert at most once, and exactly when it
\* observed BELOW having loaded last_below = false; a message is submitted
\* only by such a call.
C10_AlertIffBelowUnlatched ==
    /\ sends <= 1
    /\ sends = 1 => (status = "BELOW" /\ ~last_below)
    /\ pc \in {"log", "save", "returned"} =>
           (sends = 1 <=> (status = "BELOW" /\ ~last_below))
    /\ (pc = "returned" /\ NumRows > 0
            /\ LastRow.status \in {"ERROR", "NO_MATCH", "ABOVE"})
           => sends = 0
    /\ SentInRun(now) => sends = 1

\* A run whose only call of send_email_alert raised, and which returned.
C10_Witness ==
    /\ pc = "returned"
    /\ sends = 1
    /\ ~SentInRun(now)
    /\ LastRow.status = "BELOW"

\* --------------------------------------------------- claims C11 to C20

\* C11: a call of fetch_html_with_warm with max_retries >= 0 never begins
\* more than max_retries + 1 attempts; when it raises, every attempt failed,
\* exactly max_retries + 1 attempts were made, and the error raised carries
\* the error of the last of them.
C11_AttemptsBounded ==
    /\ f_tries <= f_max_retries + 1
    /\ f_pc = "raised" =>
           /\ f_tries = f_max_retries + 1
           /\ f_first_ok = NoResponse
           /\ f_out = <<"raise", "Fetch failed after retries: ",
                        AttemptResult(f_r0, f_r)>>

C11_Witness ==
    /\ f_pc = "raised"
    /\ f_max_retries = max_retries
    /\ f_tries = max_retries + 1
    /\ f_last_err = <<"Unexpected HTTP">>

\* C12: a call of fetch_html_with_warm returns a text if and only if the
\* target response of some attempt had a status in [200,300) and more than
\* 1000 characters, and it returns the text of the first such response; any
\* other target outcome goes to the handler of line 88 and is never returned.
C12_ReturnsIffAcceptable ==
    /\ f_first_ok # NoResponse =>
           /\ f_pc \in {"judge", "returned"}
           /\ f_r = f_first_ok
    /\ f_pc = "returned" =>
           /\ f_first_ok # NoResponse
           /\ f_out = <<"return", f_first_ok.text>>
    /\ f_pc = "raised" => f_first_ok = NoResponse
    /\ (f_pc = "handler" /\ f_r0 = "response") => ~AcceptableResponse(f_r)

C12_Witness ==
    /\ f_pc = "returned"
    /\ f_tries = 3
    /\ f_last_err = <<"Unexpected HTTP">>
    /\ f_r.status_code = 204
    /\ f_r.len = MinBodyLen + 1
    /\ f_out = <<"return", "page B">>

\* C13: after the failed attempt of index i < max_retries the call sleeps
\* backoff_ms * (i + 1) ms before the next attempt (800, 1600, 2400 with the
\* defaults); it sleeps neither before the first attempt, nor after the
\* last failed attempt, nor after an accepted response.
C13_LinearBackoff ==
    /\ Len(f_sleeps) = IF f_pc = "warm" THEN f_tries ELSE f_tries - 1
    /\ \A i \in 1..Len(f_sleeps) : f_sleeps[i] = f_backoff_ms * i

C13_Witness ==
    /\ f_pc = "raised"
    /\ f_max_retries = max_retries
    /\ f_backoff_ms = backoff_ms
    /\ f_sleeps = <<800, 1600, 2400>>

\* C14: every attempt issues the GET of the target URL after the warm-up
\* GET, whatever the warm-up came to (a failure status or a raised timeout
\* or connection error), so that no attempt ends without a target outcome.
C14_TargetAlwaysRequested ==
    f_pc \in {"handler", "returned", "raised"} => f_r # NoResponse

\* The four mail settings as send_email_alert sees them are all present and
\* non-empty.
MailSettingsComplete(env) ==
    /\ Imports(env)
    /\ CredentialsPresent(env)

\* C15: whatever mail settings are missing or empty, a run over a state
\* file that load_state turns into a dict ends with exit status 0 and one
\* row in the log; when the settings are incomplete and the run has called
\* send_email_alert, the call opened no connection and submitted nothing,
\* the row is BELOW with an error note, and the latch is left false.
C15_CredentialsMatterOnlyForAlerts ==
    (Finished /\ HasGet(load_state(file))) =>
        /\ exit = "0"
        /\ rows = 1
        /\ (~MailSettingsComplete(environ) /\ sends = 1) =>
               /\ mailbox = <<>>
               /\ LastRow.status = "BELOW"
               /\ LastRow.note = <<"Email error: ", "credentials missing">>
               /\ ~FileLastBelow

\* C15 where line 20 does not raise: the settings let the module be imported.
C15_WhenPortIsAnInteger ==
    Imports(environ) => C15_CredentialsMatterOnlyForAlerts

\* The row the current run has logged is a BELOW row with a mail error note.
LoggedMailError ==
    /\ rows = 1
    /\ LastRow.timestamp = now
    /\ LastRow.status = "BELOW"
    /\ \E o \in SendOutcomes : LastRow.note = <<"Email error: ", o>>

MatchingRows(page) == {i \in 1..Len(page) : RowMatches(page[i])}

\* The first of them in document order, 0 when there is none.
FirstMatching(page) ==
    IF MatchingRows(page) = {} THEN 0
    ELSE CHOOSE i \in MatchingRows(page) : \A j \in MatchingRows(page) : i <= j

\* The row has no price cell, or no <b> in it, or an empty one.
LacksPrice(tr) == ~tr.td \/ tr.bolds = <<>> \/ Strip(tr.bolds[1]) = <<>>

\* What the price text of one row comes to.
RowPrice(tr) ==
    IF LacksPrice(tr) THEN None
    ELSE parse_price_pln(Strip(RemoveZl(Lower(Strip(tr.bolds[1])))))

\* No row matches, or the row that decides lacks a price.
NoPriceElement(page) ==
    FirstMatching(page) = 0 \/ LacksPrice(page[FirstMatching(page)])

\* The row that decides has a price text the parser rejects.
Unparseable(page) ==
    /\ ~NoPriceElement(page)
    /\ RowPrice(page[FirstMatching(page)]).kind = "ValueError"

\* C17: a run whose page has no matching row, or whose matched row has no
\* price cell or no non-empty bold text, logs NO_MATCH, and a run whose
\* matched row has a bold text the parser rejects logs ERROR, and only
\* those; neither sends an alert nor changes the latch.
C17_NoMatchVersusError ==
    pc = "returned" =>
        /\ NoPriceElement(html) <=> (LastRow.status = "NO_MATCH")
        /\ Unparseable(html) <=> (LastRow.status = "ERROR")
        /\ LastRow.status \in {"NO_MATCH", "ERROR"} =>
               /\ sends = 0
               /\ mailbox = <<>>
               /\ LastRow.price_pln = <<>>
               /\ FileLastBelow = last_below

C17_Witness ==
    /\ pc = "returned"
    /\ html = <<RowNoCategory, RowHit(TBad)>>
    /\ LastRow.status = "ERROR"
    /\ last_below
    /\ FileLastBelow

\* What line 170 came to, once it has been executed.
ExtractResult ==
    IF err = <<"could not convert string to float">> THEN ValueError ELSE price

\* C18: the result of extract_plate_price is that of the first row, in
\* document order, that matches: rows before it that do not match are passed
\* over, and rows after it are not looked at, so that the result is None
\* when this row lacks a price even if a later matching row has one.
C18_FirstMatchingRowDecides ==
    pc # "extract" =>
        ExtractResult = IF FirstMatching(html) = 0 THEN None
                        ELSE RowPrice(html[FirstMatching(html)])

C18_Witness ==
    /\ pc = "returned"
    /\ html = <<RowOther, RowNoCell, RowHit(T199)>>
    /\ LastRow.status = "NO_MATCH"
    /\ price = None

\* The string with every space, non-breaking space and dot deleted.
RECURSIVE Kept(_)
Kept(str) ==
    IF str = <<>> THEN <<>>
    ELSE IF Head(str) \in {" ", NBSP, "."} THEN Kept(Tail(str))
    ELSE <<Head(str)>> \o Kept(Tail(str))

\* The number a string of digits with at most one comma denotes, the comma
\* read as the decimal point; ValueError for a string that denotes none (no
\* digit, or more than one comma).
Denoted(str) ==
    LET commas == {i \in 1..Len(str) : str[i] = ","} IN
    IF Cardinality(commas) > 1 \/ Cardinality(commas) = Len(str)
    THEN ValueError
    ELSE IF commas = {}
    THEN [kind |-> "float", num |-> DigitsVal(str), den |-> 1]
    ELSE LET k == CHOOSE i \in commas : TRUE
             whole == SubSeq(str, 1, k - 1)
             frac == SubSeq(str, k + 1, Len(str))
         IN  [kind |-> "float",
              num |-> DigitsVal(whole \o frac),
              den |-> Pow10(Len(frac))]

\* Two results are the same failure or the same number.
SameResult(a, b) == a.kind = b.kind /\ a.num * b.den = b.num * a.den

\* C19: on a string of digits, spaces, non-breaking spaces, dots and commas
\* parse_price_pln returns the number the string denotes once every space,
\* non-breaking space and dot is deleted and the one comma left is read as
\* the decimal point ("244,95" is 244.95, "1 234,56" and "1.234,56" are
\* 1234.56), and raises ValueError when what is left denotes no number.
C19_ParsesPolishPrices ==
    p_result # Pending =>
        /\ SameResult(p_result, Denoted(Kept(p_s)))
        /\ p_s = T244_95 => SameResult(p_result, float(<<"2", "4", "4", ".", "9", "5">>))
        /\ p_s \in {T1_234_56, T1d234_56, T1n234_56} =>
               p_result = [kind |-> "float", num |-> 123456, den |-> 100]
        /\ p_s \in {<<>>, <<" ", ".">>, <<"7", ",", ",", "0">>} =>
               p_result = ValueError

C19_Witness ==
    /\ p_s = <<".", "7", ".", ",">>
    /\ p_result = [kind |-> "float", num |-> 7, den |-> 1]

\* One row of the event log is consistent in itself and with the mailbox.
RowConsistent(rw) ==
    /\ rw.status \in {"BELOW", "ABOVE", "NO_MATCH", "ERROR"}
    /\ (rw.price_pln # <<>>) <=> (rw.status \in {"BELOW", "ABOVE"})
    /\ rw.status = "BELOW" => rw.price_pln[1] < THRESHOLD * 100
    /\ rw.status = "ABOVE" => rw.price_pln[1] >= THRESHOLD * 100
    /\ rw.note = <<"Alert sent">> =>
           (rw.status = "BELOW" /\ SentInRun(rw.timestamp))

\* C20: every row of the event log has a status among BELOW, ABOVE,
\* NO_MATCH and ERROR and a price exactly when the status is BELOW or ABOVE;
\* the status is BELOW exactly when the extracted price is less than the
\* threshold, a price equal to the threshold giving ABOVE and a reset latch;
\* and the note "Alert sent" stands only on the BELOW row of a run that
\* loaded last_below false and whose send succeeded.
C20_RowsConsistent ==
    /\ \A i \in 1..Len(log.rows) : RowConsistent(log.rows[i])
    /\ pc = "save" =>
           /\ (LastRow.status = "BELOW") <=> (price.num < THRESHOLD * price.den)
           /\ (LastRow.status = "ABOVE") <=> (price.num >= THRESHOLD * price.den)
           /\ LastRow.status = "ABOVE" => ~GetLastBelow(state)
           /\ LastRow.note = <<"Alert sent">> =>
                  (~last_below /\ sends = 1 /\ mailbox[Len(mailbox)].run = now)

C20_Witness ==
    /\ pc = "returned"
    /\ last_below
    /\ LastRow.timestamp = now
    /\ LastRow.status = "ABOVE"
    /\ LastRow.price_pln = <<THRESHOLD * 100>>
    /\ ~FileLastBelow

====
